---- MODULE Spec2Model ----
(***************************************************************************)
(* A model of DeepFind: src/embeddings.py (the Embeddings adapter over a   *)
(* Milvus store) and src/parse.py (directory walk, text extraction,        *)
(* paragraph segmentation, ingestion loop).                                *)
(*                                                                         *)
(* Texts and file names are sequences of one-character strings, so that    *)
(* endswith / startswith / strip / the regular expressions are computed    *)
(* character by character as the code computes them.                       *)
(***************************************************************************)
EXTENDS Integers, Sequences, FiniteSets, Bags, TLC

VARIABLES
    db,         \* the Milvus store at db_path (outlives every adapter object)
    db_client,  \* Embeddings.db_client: "client" or "None"
    lastCall,   \* the last adapter call: its arguments and its outcome
    pc,         \* where the running parse.py call stands
    text,       \* the text a parse.py function is called with or builds up
    paragraphs, \* extractParagraphs: the list it returns
    md_text,    \* parseMD: the text it returns
    fs,         \* parseDir: the files of the tree under path, as name sequences
    walk_stack, \* parseDir: the directories os.walk has still to yield
    root,       \* parseDir: the directory os.walk yielded last
    files,      \* parseDir: the list it builds; embedFiles: the list it is given
    pdf,        \* parsePDF: the pages of the file, each its text
    doc,        \* parsePDF: "unopened", "open" or "closed"
    page,       \* parsePDF: the number of the next page of the loop
    file_no,    \* embedFiles: the position in files of the file in hand
    vectors,    \* embedFiles: its local embeddings, the vectors of the file in hand
    error       \* embedFiles: the call that raised, "" while none has

storeVars == <<db, db_client, lastCall>>

textVars == <<pc, text, paragraphs, md_text>>

dirVars == <<fs, walk_stack, root, files>>

pdfVars == <<pdf, doc, page>>

embedVars == <<file_no, vectors, error>>

vars ==
    <<db, db_client, lastCall, pc, text, paragraphs, md_text, fs, walk_stack, root,
      files, pdf, doc, page, file_no, vectors, error>>

----------------------------------------------------------------------------
(* Small helpers *)

Range(s) == {s[i] : i \in 1..Len(s)}

Min(a, b) == IF a < b THEN a ELSE b

SeqsUpTo(S, n) == UNION {[1..k -> S] : k \in 0..n}

\* every ordering of a finite set as a duplicate-free sequence: list(set(...))
ListsOf(S) ==
    {q \in [1..Cardinality(S) -> S] : \A i, j \in 1..Cardinality(S) : q[i] = q[j] => i = j}

----------------------------------------------------------------------------
(* Bounds of the store model *)

MaxBatch == 2       \* vectors passed to one save_embeddings call
MaxTopK == 2        \* largest top_k a caller passes

SearchLimit == 5    \* limit=5 in search_embeddings

\* one more record than the search limit, so that a search can leave one out
MaxRecords == SearchLimit + 1

\* embedding vectors: one coordinate stands for the 384 of the model
Vec == {0, 1}

\* query texts; the first two are near-duplicates with the same vector
QueryTexts == {<<"a">>, <<"a", " ">>, <<"b">>}

StoreFiles == {<<"a", ".", "t", "x", "t">>, <<"b", ".", "m", "d">>}

DefaultCollection == "embeddings"

CollectionNames == {"embeddings", "other"}

----------------------------------------------------------------------------
(* The embedding model: SentenceTransformer.encode, an external fixed       *)
(* function from a text to a vector.                                        *)

encode(t) == IF "b" \in Range(t) THEN 1 ELSE 0

\* Embeddings.get_embeddings: one vector per text, in input order
get_embeddings(texts) == [i \in 1..Len(texts) |-> encode(texts[i])]

----------------------------------------------------------------------------
(* The Milvus client calls the adapter makes.  data are the flushed rows,   *)
(* pending the rows inserted and not yet flushed.  The store gives each row *)
(* an id of its own that the adapter never reads (it asks for file_name     *)
(* only), so a collection is the bag of its rows: a row stored n times is n *)
(* rows with n ids.                                                         *)

EmptyStore ==
    [existing |-> {}, indexed |-> {},
     created |-> [c \in CollectionNames |-> 0],
     data |-> [c \in CollectionNames |-> EmptyBag],
     pending |-> [c \in CollectionNames |-> EmptyBag]]

has_collection(s, c) == c \in s.existing

create_collection(s, c) ==
    [s EXCEPT !.existing = @ \cup {c}, !.created[c] = @ + 1]

create_index(s, c) == [s EXCEPT !.indexed = @ \cup {c}]

\* load_collection raises on a collection that does not exist
load_collection_ok(s, c) == has_collection(s, c)

\* the rows of a list, as a bag
RECURSIVE SeqToBag(_)
SeqToBag(rows) ==
    IF rows = <<>> THEN EmptyBag ELSE SetToBag({Head(rows)}) (+) SeqToBag(Tail(rows))

insert(s, c, rows) == [s EXCEPT !.pending[c] = @ (+) SeqToBag(rows)]

flush(s, c) == [s EXCEPT !.data[c] = @ (+) s.pending[c], !.pending[c] = EmptyBag]

\* every row the store holds, flushed or not
StoredRows(s, c) == s.data[c] (+) s.pending[c]

L2(u, v) == (u - v) * (u - v)

\* the bags of rows a search with the given limit may return: the limit
\* nearest rows, ties broken either way
search_hits(rows, qv, limit) ==
    {S \in SubBag(rows) :
        /\ BagCardinality(S) = Min(limit, BagCardinality(rows))
        /\ \A r \in BagToSet(S) : \A q \in BagToSet(rows (-) S) :
              L2(r.embedding, qv) <= L2(q.embedding, qv)}

----------------------------------------------------------------------------
(* Embeddings *)

\* load_db_client: the collection "embeddings" is created, with its index,
\* when the store does not have it
load_db_client(s) ==
    IF ~has_collection(s, DefaultCollection)
    THEN create_index(create_collection(s, DefaultCollection), DefaultCollection)
    ELSE s

\* __init__: db_client is a client when db_path is given, None otherwise
InitClient(configured) == IF configured THEN "client" ELSE "None"

InitStore(s, configured) == IF configured THEN load_db_client(s) ELSE s

Rows(embeddings, file_name) ==
    [i \in 1..Len(embeddings) |-> [file_name |-> file_name, embedding |-> embeddings[i]]]

\* the store calls of save_embeddings, in order
StoreCalls == {"load_collection", "insert", "flush"}

\* save_embeddings that inserts before it loads the collection
save_embeddings_steps_InsertFirst(client, s, embeddings, file_name, collection_name, fault) ==
    IF client = "None" THEN [store |-> s, raised |-> FALSE, error |-> ""]
    ELSE IF ~has_collection(s, collection_name) \/ fault = "insert"
    THEN [store |-> s, raised |-> TRUE, error |-> "insert"]
    ELSE IF fault = "load_collection"
    THEN [store |-> insert(s, collection_name, Rows(embeddings, file_name)),
          raised |-> TRUE, error |-> "load_collection"]
    ELSE IF fault = "flush"
    THEN [store |-> insert(s, collection_name, Rows(embeddings, file_name)),
          raised |-> TRUE, error |-> "flush"]
    ELSE [store |-> flush(insert(s, collection_name, Rows(embeddings, file_name)),
                          collection_name),
          raised |-> FALSE, error |-> ""]

\* save_embeddings, statement by statement: nothing without a client;
\* otherwise load_collection, insert of one row per vector, flush.  fault names
\* the store call that raises ("none": only a call on a missing collection
\* does); the exception leaves save_embeddings at that call.
save_embeddings_steps(client, s, embeddings, file_name, collection_name, fault) ==
    IF client = "None" THEN [store |-> s, raised |-> FALSE, error |-> ""]
    ELSE IF ~load_collection_ok(s, collection_name) \/ fault = "load_collection"
    THEN [store |-> s, raised |-> TRUE, error |-> "load_collection"]
    ELSE IF fault = "insert"
    THEN [store |-> s, raised |-> TRUE, error |-> "insert"]
    ELSE IF fault = "flush"
    THEN [store |-> insert(s, collection_name, Rows(embeddings, file_name)),
          raised |-> TRUE, error |-> "flush"]
    ELSE [store |-> flush(insert(s, collection_name, Rows(embeddings, file_name)),
                          collection_name),
          raised |-> FALSE, error |-> ""]

\* save_embeddings without the flush: the inserted rows stay pending
save_embeddings_NoFlush(client, s, embeddings, file_name, collection_name) ==
    IF client = "None" THEN [store |-> s, raised |-> FALSE, error |-> ""]
    ELSE IF ~load_collection_ok(s, collection_name)
    THEN [store |-> s, raised |-> TRUE, error |-> "load_collection"]
    ELSE [store |-> insert(s, collection_name, Rows(embeddings, file_name)),
          raised |-> FALSE, error |-> ""]

\* save_embeddings that inserts a file name only once
save_embeddings_Dedup(client, s, embeddings, file_name, collection_name) ==
    IF \E r \in BagToSet(s.data[collection_name]) : r.file_name = file_name
    THEN [store |-> s, raised |-> FALSE, error |-> ""]
    ELSE save_embeddings_steps(client, s, embeddings, file_name, collection_name, "none")

\* save_embeddings against a store whose calls do not fail
save_embeddings(client, s, embeddings, file_name, collection_name) ==
    save_embeddings_steps(client, s, embeddings, file_name, collection_name, "none")

\* search_embeddings without the db_client test
search_embeddings_NoGuard(client, s, query, top_k, collection_name) ==
    IF client = "None" \/ ~load_collection_ok(s, collection_name)
    THEN {[raised |-> TRUE, result |-> <<>>]}
    ELSE LET qv == get_embeddings(<<query>>)[1]
             rows == s.data[collection_name]
         IN  UNION {
               {[raised |-> FALSE, result |-> l] :
                   l \in ListsOf({r.file_name : r \in BagToSet(S)})} :
               S \in search_hits(rows, qv, SearchLimit)}

\* search_embeddings: [] without a client; otherwise load, embed the query,
\* search with limit=5 (top_k is not used), return list(set(file names)).
\* The set of outcomes the call may have.
search_embeddings(client, s, query, top_k, collection_name) ==
    IF client = "None" THEN {[raised |-> FALSE, result |-> <<>>]}
    ELSE IF ~load_collection_ok(s, collection_name)
    THEN {[raised |-> TRUE, result |-> <<>>]}
    ELSE LET qv == get_embeddings(<<query>>)[1]
             rows == s.data[collection_name]
         IN  UNION {
               {[raised |-> FALSE, result |-> l] :
                   l \in ListsOf({r.file_name : r \in BagToSet(S)})} :
               S \in search_hits(rows, qv, SearchLimit)}

----------------------------------------------------------------------------
(* The adapter as a state machine over one store *)

NoCall ==
    [op |-> "none", coll |-> DefaultCollection, file |-> <<>>, embs |-> <<>>,
     query |-> <<>>, top_k |-> 0, raised |-> FALSE, result |-> <<>>]

----------------------------------------------------------------------------
(* Text functions of parse.py *)

MaxParaLen == 5     \* longest text given to extractParagraphs
MaxMdLen == 4       \* longest text given to parseMD

ParaAlphabet == {"a", "b", " ", "\n"}

\* the backquote character (a TLA+ string cannot hold it)
BQ == "backquote"

MdAlphabet == {"a", " ", "*", BQ, "\n"}

\* what the regex whitespace class and str.strip() take for whitespace, among
\* the characters used
IsSpace(c) == c \in {" ", "\n", "\t"}

SetMin(S) == CHOOSE x \in S : \A y \in S : x <= y

SetMax(S) == CHOOSE x \in S : \A y \in S : x >= y

\* str.strip()
strip(p) ==
    LET keep == {i \in 1..Len(p) : ~IsSpace(p[i])}
    IN  IF keep = {} THEN <<>> ELSE SubSeq(p, SetMin(keep), SetMax(keep))

\* the split pattern (newline, greedy whitespace run, newline) matched at
\* position i: the position of its last character, which is the last newline
\* of the whitespace run; 0 when it does not match there
blank_line_match(t, i) ==
    IF t[i] # "\n" THEN 0
    ELSE LET ends == {j \in (i + 1)..Len(t) :
                        /\ t[j] = "\n"
                        /\ \A k \in (i + 1)..(j - 1) : IsSpace(t[k])}
         IN  IF ends = {} THEN 0 ELSE SetMax(ends)

\* re.split on that pattern, from position i with the current piece begun at
\* start: leftmost matches, the pieces between them (empty ones included)
RECURSIVE re_split_from(_, _, _)
re_split_from(t, start, i) ==
    IF i > Len(t) THEN <<SubSeq(t, start, Len(t))>>
    ELSE LET e == blank_line_match(t, i)
         IN  IF e > 0
             THEN <<SubSeq(t, start, i - 1)>> \o re_split_from(t, e + 1, e + 1)
             ELSE re_split_from(t, start, i + 1)

re_split(t) == re_split_from(t, 1, 1)

NonEmpty(p) == strip(p) # <<>>

\* extractParagraphs without the test that drops empty pieces
extractParagraphs_NoFilter(t) ==
    LET parts == re_split(t) IN [i \in 1..Len(parts) |-> strip(parts[i])]

\* extractParagraphs: the stripped pieces of the split, those that strip to
\* the empty string left out
extractParagraphs(t) ==
    LET parts == SelectSeq(re_split(t), NonEmpty)
    IN  [i \in 1..Len(parts) |-> strip(parts[i])]

StartsAt(t, i, d) ==
    /\ i >= 1
    /\ i + Len(d) - 1 <= Len(t)
    /\ \A k \in 1..Len(d) : t[i + k - 1] = d[k]

\* re.sub of d, lazy group, d by the group, from position i: at the leftmost opening d whose
\* nearest closing d is reached without crossing a newline, both are dropped
\* and the scan goes on after the closing one
RECURSIVE re_sub_from(_, _, _)
re_sub_from(t, d, i) ==
    IF i > Len(t) THEN <<>>
    ELSE LET n == Len(d)
             closers == {j \in (i + n)..Len(t) :
                            /\ StartsAt(t, j, d)
                            /\ \A k \in (i + n)..(j - 1) : t[k] # "\n"}
         IN  IF StartsAt(t, i, d) /\ closers # {}
             THEN SubSeq(t, i + n, SetMin(closers) - 1)
                    \o re_sub_from(t, d, SetMin(closers) + n)
             ELSE <<t[i]>> \o re_sub_from(t, d, i + 1)

re_sub(t, d) == re_sub_from(t, d, 1)

\* parseMD on the text read from the file: bold, then italic, then inline code
parseMD(t) == re_sub(re_sub(re_sub(t, <<"*", "*">>), <<"*">>), <<BQ>>)

----------------------------------------------------------------------------
(* parseDir.  A file of the tree is the sequence of the names on its path    *)
(* below the walked directory, its own name last; the directories are the    *)
(* proper prefixes of the files.                                             *)

MaxFiles == 2       \* files in the walked tree

DirNames == {<<".", "g">>, <<"s">>}

\* the directories of the tree: the walked one and two levels below it
DirPaths ==
    {<<>>} \cup {<<d>> : d \in DirNames} \cup {<<d, e>> : d \in DirNames, e \in DirNames}

FileNames ==
    {<<"a", ".", "m", "d">>, <<"a", ".", "M", "D">>, <<"a", ".", "m", "d", "x">>,
     <<".", "m", "d">>, <<"m", "d">>, <<"a", ".", "t", "x", "t">>,
     <<"a", ".", "p", "d", "f">>, <<"a", ".", "d", "o", "c", "x">>}

AllFiles == {d \o <<n>> : d \in DirPaths, n \in FileNames}

\* str.startswith / str.endswith
startswith(name, prefix) == StartsAt(name, 1, prefix)

endswith(name, suffix) == StartsAt(name, Len(name) - Len(suffix) + 1, suffix)

DotPdf == <<".", "p", "d", "f">>

DotDocx == <<".", "d", "o", "c", "x">>

DotTxt == <<".", "t", "x", "t">>

DotMd == <<".", "m", "d">>

IsPrefix(d, f) == Len(d) <= Len(f) /\ SubSeq(f, 1, Len(d)) = d

\* os.walk's dirs and filenames for the directory top
listdir_dirs(tree, top) ==
    {f[Len(top) + 1] : f \in {g \in tree : IsPrefix(top, g) /\ Len(g) > Len(top) + 1}}

listdir_files(tree, top) ==
    {f[Len(top) + 1] : f \in {g \in tree : IsPrefix(top, g) /\ Len(g) = Len(top) + 1}}

\* the walk that descends into every directory
kept_dirs_NoPrune(dirs) == dirs

\* dirs[:] = [d for d in dirs if not d.startswith('.')]
kept_dirs(dirs) == {d \in dirs : ~startswith(d, <<".">>)}

\* the test of line 22 on a file name
is_supported(filename) ==
    \/ endswith(filename, DotPdf)
    \/ endswith(filename, DotDocx)
    \/ endswith(filename, DotTxt)
    \/ endswith(filename, DotMd)

----------------------------------------------------------------------------
(* parsePDF *)

MaxPages == 3       \* pages of the PDF file

PageTexts == {<<>>, <<"a">>, <<"b", "\n">>}

----------------------------------------------------------------------------
(* parseFile and the files embedFiles is given *)

MaxBatchFiles == 2  \* files in the list given to embedFiles

FTxt == <<"a", ".", "t", "x", "t">>

FMd == <<"b", ".", "m", "d">>

FPdf == <<"c", ".", "p", "d", "f">>

FDocx == <<"d", ".", "d", "o", "c", "x">>

FBin == <<"e", ".", "b", "i", "n">>

DiskFiles == {FTxt, FMd, FPdf, FDocx, FBin}

\* what is on disk: the characters of a text file, the pages of a PDF, the
\* paragraphs of a DOCX
Disk(file) ==
    CASE file = FTxt -> <<"a", "\n", "\n", "b">>
      [] file = FMd -> <<"*", "b", "*">>
      [] file = FPdf -> <<<<"a">>, <<"\n", "\n", " ">>>>
      [] file = FDocx -> <<>>
      [] OTHER -> <<"a">>

RECURSIVE Concat(_)
Concat(ss) == IF ss = <<>> THEN <<>> ELSE Head(ss) \o Concat(Tail(ss))

\* parsePDF when no call raises: the texts of the pages, in page order
parsePDF(pages) == Concat(pages)

\* parseDOCX: each paragraph's text followed by a newline
parseDOCX(paras) == Concat([k \in 1..Len(paras) |-> paras[k] \o <<"\n">>])

\* parseTXT: the file's text as it is
parseTXT(content) == content

\* parseFile: dispatch on the extension, ValueError for any other
parseFile(file) ==
    IF endswith(file, DotPdf) THEN [raised |-> FALSE, text |-> parsePDF(Disk(file))]
    ELSE IF endswith(file, DotDocx) THEN [raised |-> FALSE, text |-> parseDOCX(Disk(file))]
    ELSE IF endswith(file, DotTxt) THEN [raised |-> FALSE, text |-> parseTXT(Disk(file))]
    ELSE IF endswith(file, DotMd) THEN [raised |-> FALSE, text |-> parseMD(Disk(file))]
    ELSE [raised |-> TRUE, text |-> <<>>]

TextIdle ==
    /\ pc = "idle"
    /\ text = <<>>
    /\ paragraphs = <<>>
    /\ md_text = <<>>

StoreIdle ==
    /\ db = EmptyStore
    /\ db_client = "None"
    /\ lastCall = NoCall

DirIdle ==
    /\ fs = {}
    /\ walk_stack = <<>>
    /\ root = <<>>
    /\ files = <<>>

PdfIdle ==
    /\ pdf = <<>>
    /\ doc = "unopened"
    /\ page = 1

EmbedIdle ==
    /\ file_no = 1
    /\ vectors = <<>>
    /\ error = ""

ParaInit ==
    /\ text \in SeqsUpTo(ParaAlphabet, MaxParaLen)
    /\ pc = "call"
    /\ paragraphs = <<>>
    /\ md_text = <<>>
    /\ StoreIdle /\ DirIdle /\ PdfIdle /\ EmbedIdle

ExtractParagraphs ==
    /\ pc = "call"
    /\ paragraphs' = extractParagraphs(text)
    /\ pc' = "return"
    /\ UNCHANGED <<text, md_text, storeVars, dirVars, pdfVars, embedVars>>

ParaSpec == ParaInit /\ [][ExtractParagraphs]_vars

MdInit ==
    /\ text \in SeqsUpTo(MdAlphabet, MaxMdLen)
    /\ pc = "call"
    /\ paragraphs = <<>>
    /\ md_text = <<>>
    /\ StoreIdle /\ DirIdle /\ PdfIdle /\ EmbedIdle

ParseMD ==
    /\ pc = "call"
    /\ md_text' = parseMD(text)
    /\ pc' = "return"
    /\ UNCHANGED <<text, paragraphs, storeVars, dirVars, pdfVars, embedVars>>

MdSpec == MdInit /\ [][ParseMD]_vars


DirInit ==
    /\ fs \in {Range(q) : q \in SeqsUpTo(AllFiles, MaxFiles)}
    /\ pc = "call"
    /\ walk_stack = <<>>
    /\ root = <<>>
    /\ files = <<>>
    /\ text = <<>> /\ paragraphs = <<>> /\ md_text = <<>>
    /\ StoreIdle /\ PdfIdle /\ EmbedIdle

\* files = []; os.walk(path) starts at path
ParseDirCall ==
    /\ pc = "call"
    /\ files' = <<>>
    /\ walk_stack' = <<<<>>>>
    /\ pc' = "walk"
    /\ UNCHANGED <<fs, root, text, paragraphs, md_text, storeVars, pdfVars, embedVars>>

\* one turn of the for loop over os.walk: the next directory is yielded, its
\* dirs are pruned, its supported file names are appended (in listing order,
\* which is any order), and os.walk goes on into the dirs kept
ParseDirWalk ==
    /\ pc = "walk"
    /\ walk_stack # <<>>
    /\ LET top == Head(walk_stack)
           dirs == kept_dirs(listdir_dirs(fs, top))
           names == {n \in listdir_files(fs, top) : is_supported(n)}
       IN  \E dl \in ListsOf(dirs), nl \in ListsOf(names) :
              /\ root' = top
              /\ files' = files \o [k \in 1..Len(nl) |-> top \o <<nl[k]>>]
              /\ walk_stack' = [k \in 1..Len(dl) |-> top \o <<dl[k]>>] \o Tail(walk_stack)
    /\ UNCHANGED <<fs, pc, text, paragraphs, md_text, storeVars, pdfVars, embedVars>>

ParseDirReturn ==
    /\ pc = "walk"
    /\ walk_stack = <<>>
    /\ pc' = "return"
    /\ UNCHANGED <<dirVars, text, paragraphs, md_text, storeVars, pdfVars, embedVars>>

DirNext == ParseDirCall \/ ParseDirWalk \/ ParseDirReturn

DirSpec == DirInit /\ [][DirNext]_vars

PdfInit ==
    /\ pdf \in SeqsUpTo(PageTexts, MaxPages)
    /\ doc = "unopened"
    /\ page = 1
    /\ pc = "call"
    /\ text = <<>> /\ paragraphs = <<>> /\ md_text = <<>>
    /\ StoreIdle /\ DirIdle /\ EmbedIdle

\* doc = fitz.open(file); text = ""
PdfOpen ==
    /\ pc = "call"
    /\ doc' = "open"
    /\ text' = <<>>
    /\ page' = 1
    /\ pc' = "loop"
    /\ UNCHANGED <<pdf, paragraphs, md_text, storeVars, dirVars, embedVars>>

\* fitz.open raises (no such file, not a PDF): nothing was opened
PdfOpenRaises ==
    /\ pc = "call"
    /\ pc' = "raised"
    /\ UNCHANGED <<text, pdfVars, paragraphs, md_text, storeVars, dirVars, embedVars>>

\* text += page.get_text()
PdfGetText ==
    /\ pc = "loop"
    /\ page <= Len(pdf)
    /\ text' = text \o pdf[page]
    /\ page' = page + 1
    /\ UNCHANGED <<pc, pdf, doc, paragraphs, md_text, storeVars, dirVars, embedVars>>

\* page.get_text() raises: the exception leaves parsePDF from inside the loop
PdfGetTextRaises ==
    /\ pc = "loop"
    /\ page <= Len(pdf)
    /\ pc' = "raised"
    /\ UNCHANGED <<text, pdfVars, paragraphs, md_text, storeVars, dirVars, embedVars>>

\* doc.close(), after the loop
PdfClose ==
    /\ pc = "loop"
    /\ page > Len(pdf)
    /\ doc' = "closed"
    /\ pc' = "close"
    /\ UNCHANGED <<text, pdf, page, paragraphs, md_text, storeVars, dirVars, embedVars>>

\* return text
PdfReturn ==
    /\ pc = "close"
    /\ pc' = "return"
    /\ UNCHANGED <<text, pdfVars, paragraphs, md_text, storeVars, dirVars, embedVars>>

PdfNext ==
    PdfOpen \/ PdfOpenRaises \/ PdfGetText \/ PdfGetTextRaises \/ PdfClose \/ PdfReturn

PdfSpec == PdfInit /\ [][PdfNext]_vars

EmbedInit ==
    /\ files \in SeqsUpTo(DiskFiles, MaxBatchFiles)
    /\ \E configured \in BOOLEAN :
          /\ db = InitStore(EmptyStore, configured)
          /\ db_client = InitClient(configured)
    /\ lastCall = NoCall
    /\ pc = "loop"
    /\ file_no = 1
    /\ vectors = <<>>
    /\ error = ""
    /\ text = <<>> /\ paragraphs = <<>> /\ md_text = <<>>
    /\ fs = {} /\ walk_stack = <<>> /\ root = <<>>
    /\ PdfIdle

\* for file in files: the next file is taken
EmbedNextFile ==
    /\ pc = "loop"
    /\ file_no <= Len(files)
    /\ pc' = "parseFile"
    /\ UNCHANGED <<storeVars, text, paragraphs, md_text, dirVars, pdfVars, embedVars>>

\* the list is exhausted: return
EmbedReturn ==
    /\ pc = "loop"
    /\ file_no > Len(files)
    /\ pc' = "return"
    /\ UNCHANGED <<storeVars, text, paragraphs, md_text, dirVars, pdfVars, embedVars>>

\* text = parseFile(file)
EmbedParseFile ==
    /\ pc = "parseFile"
    /\ ~parseFile(files[file_no]).raised
    /\ text' = parseFile(files[file_no]).text
    /\ pc' = "extractParagraphs"
    /\ UNCHANGED <<storeVars, paragraphs, md_text, dirVars, pdfVars, embedVars>>

\* parseFile raises: ValueError for an unsupported extension, or the error of
\* an unreadable or malformed file; embedFiles does not catch it
EmbedParseFileRaises ==
    /\ pc = "parseFile"
    /\ pc' = "raised"
    /\ error' = "parseFile"
    /\ UNCHANGED <<storeVars, text, paragraphs, md_text, dirVars, pdfVars, file_no, vectors>>

\* paragraphs = extractParagraphs(text)
EmbedExtractParagraphs ==
    /\ pc = "extractParagraphs"
    /\ paragraphs' = extractParagraphs(text)
    /\ pc' = "get_embeddings"
    /\ UNCHANGED <<storeVars, text, md_text, dirVars, pdfVars, embedVars>>

\* embeddings = embedding.get_embeddings(paragraphs)
EmbedGetEmbeddings ==
    /\ pc = "get_embeddings"
    /\ vectors' = get_embeddings(paragraphs)
    /\ pc' = "save_embeddings"
    /\ UNCHANGED <<storeVars, text, md_text, paragraphs, dirVars, pdfVars, file_no, error>>

\* the model raises
EmbedGetEmbeddingsRaises ==
    /\ pc = "get_embeddings"
    /\ pc' = "raised"
    /\ error' = "get_embeddings"
    /\ UNCHANGED <<storeVars, text, paragraphs, md_text, dirVars, pdfVars, file_no, vectors>>

\* embedding.save_embeddings(embeddings, file), any of its store calls failing
\* or none; on success the loop goes on with the next file
EmbedSaveEmbeddings ==
    /\ pc = "save_embeddings"
    /\ \E fault \in StoreCalls \cup {"none"} :
          LET r == save_embeddings_steps(db_client, db, vectors, files[file_no],
                                         DefaultCollection, fault)
          IN  /\ db' = r.store
              /\ error' = r.error
              /\ pc' = IF r.raised THEN "raised" ELSE "loop"
              /\ file_no' = IF r.raised THEN file_no ELSE file_no + 1
    /\ UNCHANGED <<db_client, lastCall, text, paragraphs, md_text, dirVars, pdfVars, vectors>>

EmbedNext ==
    \/ EmbedNextFile
    \/ EmbedReturn
    \/ EmbedParseFile
    \/ EmbedParseFileRaises
    \/ EmbedExtractParagraphs
    \/ EmbedGetEmbeddings
    \/ EmbedGetEmbeddingsRaises
    \/ EmbedSaveEmbeddings

EmbedSpec == EmbedInit /\ [][EmbedNext]_vars

StoreInit ==
    \E configured \in BOOLEAN :
        /\ db = InitStore(EmptyStore, configured)
        /\ db_client = InitClient(configured)
        /\ lastCall = NoCall
        /\ TextIdle /\ DirIdle /\ PdfIdle /\ EmbedIdle

\* a new Embeddings object on the same store (a later run of the program)
Construct ==
    \E configured \in BOOLEAN :
        /\ db' = InitStore(db, configured)
        /\ db_client' = InitClient(configured)
        /\ lastCall' = [NoCall EXCEPT !.op = "construct"]
        /\ UNCHANGED <<textVars, dirVars, pdfVars, embedVars>>

Save ==
    \E embeddings \in SeqsUpTo(Vec, MaxBatch), file_name \in StoreFiles,
       collection_name \in CollectionNames :
        /\ BagCardinality(StoredRows(db, collection_name)) + Len(embeddings) <= MaxRecords
        /\ LET r == save_embeddings(db_client, db, embeddings, file_name, collection_name)
           IN  /\ db' = r.store
               /\ lastCall' = [NoCall EXCEPT !.op = "save", !.coll = collection_name,
                                  !.file = file_name, !.embs = embeddings,
                                  !.raised = r.raised]
        /\ UNCHANGED <<db_client, textVars, dirVars, pdfVars, embedVars>>

Search ==
    \E query \in QueryTexts, top_k \in 1..MaxTopK, collection_name \in CollectionNames :
        \E r \in search_embeddings(db_client, db, query, top_k, collection_name) :
            /\ lastCall' = [NoCall EXCEPT !.op = "search", !.coll = collection_name,
                               !.query = query, !.top_k = top_k,
                               !.raised = r.raised, !.result = r.result]
            /\ UNCHANGED <<db, db_client, textVars, dirVars, pdfVars, embedVars>>

StoreNext == Construct \/ Save \/ Search

StoreSpec == StoreInit /\ [][StoreNext]_vars

----------------------------------------------------------------------------
(* Claims about the adapter *)

DefaultRows == StoredRows(db, DefaultCollection)

FileNamesOf(S) == {r.file_name : r \in BagToSet(S)}

RowKinds == [file_name : StoreFiles, embedding : Vec]

\* C1: a save_embeddings call on a configured store (default collection)
\* adds exactly one row per vector, each carrying file_name, and removes or
\* changes no row already stored: for every file name and vector, the number
\* of such rows grows by the number of times the vector is in embeddings when
\* the file name is file_name, and stays as it was otherwise; nothing is left
\* unflushed and no other collection changes.  Row counts per file name
\* therefore add up over saves, and saving a document twice doubles its rows.
C1_SaveAppendsOneRowPerVector ==
    [][(lastCall'.op = "save" /\ lastCall'.coll = DefaultCollection
            /\ db_client = "client")
        => /\ ~lastCall'.raised
           /\ \A r \in RowKinds :
                 CopiesIn(r, db'.data[DefaultCollection])
                    = CopiesIn(r, db.data[DefaultCollection])
                        + (IF r.file_name = lastCall'.file
                           THEN Cardinality({i \in 1..Len(lastCall'.embs) :
                                                lastCall'.embs[i] = r.embedding})
                           ELSE 0)
           /\ BagCardinality(db'.data[DefaultCollection])
                 = BagCardinality(db.data[DefaultCollection]) + Len(lastCall'.embs)
           /\ db'.pending = db.pending
           /\ \A c \in CollectionNames \ {DefaultCollection} :
                 db'.data[c] = db.data[c]]_vars

\* a document saved twice: two vectors just saved under a file name that
\* already had the same two vectors stored, and now has each twice
C1_Witness ==
    /\ lastCall.op = "save" /\ db_client = "client" /\ lastCall.embs = <<0, 1>>
    /\ BagCardinality(DefaultRows) = 4
    /\ \A v \in Vec :
          CopiesIn([file_name |-> lastCall.file, embedding |-> v], DefaultRows) = 2

\* C2: the list search_embeddings returns has no repeated file name, each
\* entry is the file name of one of the top_k nearest rows, and it has at most
\* top_k entries.
C2_AtMostTopK ==
    (lastCall.op = "search" /\ ~lastCall.raised /\ db_client = "client")
    => /\ \A i, j \in 1..Len(lastCall.result) :
              lastCall.result[i] = lastCall.result[j] => i = j
       /\ Len(lastCall.result) <= lastCall.top_k
       /\ \E S \in search_hits(db.data[lastCall.coll],
                               get_embeddings(<<lastCall.query>>)[1], lastCall.top_k) :
              Range(lastCall.result) \subseteq FileNamesOf(S)

\* what the last call must have returned when it was made without a store
\* connection, or was a search of a configured, empty default collection
AbsentStoreReturns ==
    /\ (lastCall.op = "search" /\ db_client = "None")
            => (lastCall.result = <<>> /\ ~lastCall.raised)
    /\ (lastCall.op = "save" /\ db_client = "None") => ~lastCall.raised
    /\ (lastCall.op = "search" /\ db_client = "client"
            /\ lastCall.coll = DefaultCollection /\ DefaultRows = EmptyBag)
            => (lastCall.result = <<>> /\ ~lastCall.raised)

\* C3: without a store connection save_embeddings changes nothing and does not
\* raise, and search_embeddings returns [] and does not raise; a search of a
\* configured store whose collection holds no rows returns [] as well.
C3_AbsentStoreIsNoOp ==
    /\ []AbsentStoreReturns
    /\ [][(lastCall'.op \in {"save", "search"} /\ db_client = "None") => db' = db]_vars

\* an adapter without a connection, on a store that holds rows, has just
\* searched
C3_Witness ==
    /\ db_client = "None" /\ lastCall.op = "search"
    /\ BagCardinality(DefaultRows) >= 2

\* the rows of B at distance d or less from qv
RowsWithin(B, qv, d) ==
    [r \in {x \in BagToSet(B) : L2(x.embedding, qv) <= d} |-> B[r]]

\* C4 (as claimed): a search whose query vector has a stored row as a nearest
\* neighbour returns that row's file name, whatever else is stored.
C4_SavedIsFound ==
    (lastCall.op = "search" /\ db_client = "client" /\ lastCall.coll = DefaultCollection)
    => LET qv == get_embeddings(<<lastCall.query>>)[1]
       IN  \A r \in BagToSet(DefaultRows) :
              (\A q \in BagToSet(DefaultRows) :
                    L2(r.embedding, qv) <= L2(q.embedding, qv))
              => \E k \in 1..Len(lastCall.result) : lastCall.result[k] = r.file_name

\* C4 (amended): the file name of a stored row is in the result of every later
\* search for which fewer than 5 (the search limit) other stored rows are at
\* least as near to the query vector as that row.
C4_SavedIsFoundWithinLimit ==
    (lastCall.op = "search" /\ db_client = "client" /\ lastCall.coll = DefaultCollection)
    => LET qv == get_embeddings(<<lastCall.query>>)[1]
       IN  \A r \in BagToSet(DefaultRows) :
              BagCardinality(RowsWithin(DefaultRows, qv, L2(r.embedding, qv))) - 1
                  < SearchLimit
              => \E k \in 1..Len(lastCall.result) : lastCall.result[k] = r.file_name

\* six rows stored: the query's exact vector once, under one file name, and
\* five farther rows under the other file name; the search kept the exact row
\* among its five hits, left one of the farther rows out and returned both
\* file names
C4_Witness ==
    /\ lastCall.op = "search" /\ db_client = "client" /\ ~lastCall.raised
    /\ lastCall.coll = DefaultCollection
    /\ BagCardinality(DefaultRows) = MaxRecords
    /\ Len(lastCall.result) = 2
    /\ LET qv == get_embeddings(<<lastCall.query>>)[1]
       IN  \E r \in BagToSet(DefaultRows) :
              /\ r.embedding = qv
              /\ CopiesIn(r, DefaultRows) = 1
              /\ \A q \in BagToSet(DefaultRows) \ {r} :
                    q.embedding # qv /\ q.file_name # r.file_name

\* C5: after a configured adapter has used a collection name in
\* save_embeddings or search_embeddings, that collection exists with its
\* schema and index (created on first use), and no collection is created more
\* than once.
C5_CollectionExistsOnUse ==
    /\ (lastCall.op \in {"save", "search"} /\ db_client = "client")
            => (lastCall.coll \in db.existing /\ lastCall.coll \in db.indexed)
    /\ \A c \in CollectionNames : db.created[c] <= 1

----------------------------------------------------------------------------
(* Claims about the text functions *)

AllSpace(t) == \A i \in 1..Len(t) : IsSpace(t[i])

\* the entries of l from the k-th on occur in t, in this order and without
\* overlap, at or after position from
RECURSIVE OccurInOrder(_, _, _, _)
OccurInOrder(t, l, k, from) ==
    \/ k > Len(l)
    \/ \E s \in from..(Len(t) - Len(l[k]) + 1) :
          /\ SubSeq(t, s, s + Len(l[k]) - 1) = l[k]
          /\ OccurInOrder(t, l, k + 1, s + Len(l[k]))

\* C6: extractParagraphs returns no empty and no whitespace-only entry; for a
\* text of whitespace only (the empty text too) it returns the empty list; and
\* its entries occur in the text in the order of the list.
C6_NoBlankParagraphs ==
    pc = "return"
    => /\ \A i \in 1..Len(paragraphs) :
              paragraphs[i] # <<>> /\ ~AllSpace(paragraphs[i])
       /\ AllSpace(text) => paragraphs = <<>>
       /\ OccurInOrder(text, paragraphs, 1, 1)

\* two paragraphs around a blank line that holds a space
C6_Witness ==
    /\ pc = "return"
    /\ text = <<"b", "\n", " ", "\n", "a">>
    /\ paragraphs = <<<<"b">>, <<"a">>>>

\* a span Markdown reads as emphasis or inline code: a pair of the marker
\* around a non-empty text on one line that holds no marker and neither starts
\* nor ends with whitespace
HasEmphasisSpan(t) ==
    \E ch \in {"*", BQ} : \E i, j \in 1..Len(t) :
        /\ j > i + 1
        /\ t[i] = ch /\ t[j] = ch
        /\ \A k \in (i + 1)..(j - 1) : t[k] # ch /\ t[k] # "\n"
        /\ ~IsSpace(t[i + 1]) /\ ~IsSpace(t[j - 1])

\* C9: parseMD returns a text without emphasis spans unchanged, and a '*'
\* list bullet or a triple-backtick fence at the start of the text passes
\* through, whatever follows it.
C9_OnlyEmphasisStripped ==
    pc = "return"
    => /\ ~HasEmphasisSpan(text) => md_text = text
       /\ StartsAt(text, 1, <<"*", " ">>) => StartsAt(md_text, 1, <<"*", " ">>)
       /\ StartsAt(text, 1, <<BQ, BQ, BQ>>) => StartsAt(md_text, 1, <<BQ, BQ, BQ>>)

----------------------------------------------------------------------------
(* Claims about parseDir and parsePDF *)

\* the extension of a file name: from its last dot on, empty without a dot
Ext(name) ==
    LET dots == {k \in 1..Len(name) : name[k] = "."}
    IN  IF dots = {} THEN <<>> ELSE SubSeq(name, SetMax(dots), Len(name))

UnderHiddenDir(f) == \E k \in 1..(Len(f) - 1) : f[k][1] = "."

\* C7: parseDir returns exactly the files of the tree that lie under no
\* directory whose name starts with '.', at any depth, and whose extension is
\* exactly .pdf, .docx, .txt or .md, each once; and the walk never enters a
\* directory whose name starts with '.'.
C7_ParseDirSupportedVisibleFiles ==
    /\ \A k \in 1..Len(root) : root[k][1] # "."
    /\ pc = "return"
        => /\ Range(files)
                = {f \in fs : /\ ~UnderHiddenDir(f)
                              /\ Ext(f[Len(f)]) \in {DotPdf, DotDocx, DotTxt, DotMd}}
           /\ \A i, j \in 1..Len(files) : files[i] = files[j] => i = j

\* a supported file under a hidden directory below a visible one is left out,
\* the supported file beside that hidden directory is returned
C7_Witness ==
    /\ pc = "return"
    /\ fs = {<<<<"s">>, <<".", "g">>, <<"a", ".", "m", "d">>>>,
             <<<<"s">>, <<"a", ".", "t", "x", "t">>>>}
    /\ files = <<<<<<"s">>, <<"a", ".", "t", "x", "t">>>>>>

\* C8: whenever parsePDF has opened the document, the document is closed when
\* parsePDF returns or raises.
C8_DocumentClosedOnEveryOutcome ==
    (pc \in {"return", "raised"} /\ doc # "unopened") => doc = "closed"

----------------------------------------------------------------------------
(* Claims about embedFiles *)

\* the rows a file gives when nothing fails
FileRows(file) ==
    Rows(get_embeddings(extractParagraphs(parseFile(file).text)), file)

\* the rows of the first n files of the list, in list order
ExpectedRows(fl, n) == SeqToBag(Concat([k \in 1..n |-> FileRows(fl[k])]))

\* the files are taken in list order and one is finished before the next is
\* begun: but for a failed call, the store holds the rows of the files before
\* the one in hand; a raised error ends embedFiles
InListOrder ==
    /\ pc \notin {"raised", "idle"}
            => db.data[DefaultCollection] = ExpectedRows(files, file_no - 1)
                /\ db.pending[DefaultCollection] = EmptyBag
    /\ pc = "return" => file_no = Len(files) + 1
    /\ pc = "raised" => ~ENABLED EmbedNext

\* C10 (as claimed): with a configured store, embedFiles takes the files in
\* list order, and when the first failure is at file k the error ends the
\* call, the rows of files 1..k-1 are stored and no row of file k or of a
\* later file is.
C10_FailureLeavesEarlierFilesOnly ==
    db_client = "client"
    => /\ InListOrder
       /\ pc = "raised" => DefaultRows = ExpectedRows(files, file_no - 1)

\* C10 (amended): as claimed, except when the failing call is the flush that
\* follows file k's insert: then the rows of file k are stored too, unflushed.
C10_FailureLeavesEarlierFilesOrUnflushedRows ==
    db_client = "client"
    => /\ InListOrder
       /\ (pc = "raised" /\ error # "flush")
            => DefaultRows = ExpectedRows(files, file_no - 1)
       /\ (pc = "raised" /\ error = "flush")
            => /\ db.data[DefaultCollection] = ExpectedRows(files, file_no - 1)
               /\ db.pending[DefaultCollection] = SeqToBag(FileRows(files[file_no]))

\* the second file of the list has an unsupported extension: parseFile
\* raised, and the two rows of the first file are stored
C10_Witness ==
    /\ db_client = "client"
    /\ pc = "raised" /\ error = "parseFile"
    /\ files = <<FTxt, FBin>>
    /\ file_no = 2
    /\ BagCardinality(DefaultRows) = 2

====
